---- MODULE Spec2Model ----
(***************************************************************************)
(* JsonHandler (src/src/json.cpp): the recursive-descent decoder over a    *)
(* shared integer cursor, and the encoder with its string escaping.        *)
(*                                                                         *)
(* A program state is one decode call in progress: the code-unit sequence  *)
(* `data` (the terminator sits at index Len(data)), the cursor `pos`, and  *)
(* the C++ call stack as a sequence of frames, each holding the locals of  *)
(* its function and the place it has reached.  One action is one basic     *)
(* block of a function: the code between two calls or one loop iteration.  *)
(* Code units are integers; indexes are 0-based as in the source.          *)
(***************************************************************************)
EXTENDS Integers, Sequences, FiniteSets, TLC

VARIABLES
  input,    \* how the caller built the text it hands to decode
  data,     \* json.c_str(): the code units before the terminator
  call,     \* 1 for the caller's first decode call, 2 for its second
  first,    \* outcome of the caller's first decode call
  pos,      \* int pos of decode(), passed by reference to every production
  stack,    \* call stack, innermost frame last
  ret,      \* what the call that returned last returned: a Value, or the
            \* int of decode_integer as [type |-> "int", i |-> ...]
  status,   \* "running", "ok" (decode returned) or "error" (decode threw)
  err,      \* the exception thrown: kind, message, position
  maxread   \* highest index of data read so far

harness == <<input, data, call, first>>
vars == <<input, data, call, first, pos, stack, ret, status, err, maxread>>

(***************************************************************************)
(* Code units named in the source.                                         *)
(***************************************************************************)
NUL == 0
CH_BS == 8
CH_TAB == 9
CH_LF == 10
CH_FF == 12
CH_CR == 13
CH_SPACE == 32
CH_QUOTE == 34
CH_PLUS == 43
CH_COMMA == 44
CH_MINUS == 45
CH_DOT == 46
CH_SLASH == 47
CH_0 == 48
CH_COLON == 58
CH_UPPER_A == 65
CH_UPPER_E == 69
CH_LBRACKET == 91
CH_BACKSLASH == 92
CH_RBRACKET == 93
CH_a == 97
CH_b == 98
CH_e == 101
CH_f == 102
CH_n == 110
CH_r == 114
CH_t == 116
CH_u == 117
CH_LBRACE == 123
CH_RBRACE == 125

LIT_TRUE == <<116, 114, 117, 101>>
LIT_FALSE == <<102, 97, 108, 115, 101>>
LIT_NULL == <<110, 117, 108, 108>>

(***************************************************************************)
(* <wctype.h> predicates, in the "C" locale the program starts in.         *)
(***************************************************************************)
iswdigit(c) == c >= CH_0 /\ c <= CH_0 + 9
iswxdigit(c) == iswdigit(c) \/ (c >= CH_a /\ c <= CH_a + 5) \/ (c >= CH_UPPER_A /\ c <= CH_UPPER_A + 5)
isupper(c) == c >= CH_UPPER_A /\ c <= CH_UPPER_A + 25
iswspace(c) == c \in {CH_TAB, CH_LF, 11, CH_FF, CH_CR, CH_SPACE}
iswprint(c) == c >= CH_SPACE /\ c <= 126

Max(a, b) == IF a >= b THEN a ELSE b

(***************************************************************************)
(* Value (json/value.h): the tagged union, by its constructors.            *)
(***************************************************************************)
NullV == [type |-> "Null"]
BoolV(b) == [type |-> "Boolean", b |-> b]
IntV(i) == [type |-> "Integer", i |-> i]
FloatV(neg, integer, remainder, remainder_count, exponent) ==
  [type |-> "Float", neg |-> neg, integer |-> integer, remainder |-> remainder,
   remainder_count |-> remainder_count, exponent |-> exponent]
StrV(s) == [type |-> "String", s |-> s]
ListV(l) == [type |-> "List", list |-> l]
ObjV(o) == [type |-> "Object", obj |-> o]

\* Value::Object::insert: an entry whose key is present already is dropped.
ObjectInsert(obj, k, v) == IF k \in DOMAIN obj THEN obj ELSE (k :> v) @@ obj

(***************************************************************************)
(* Reading the input.                                                      *)
(***************************************************************************)
\* data[i]; index Len(data) holds the terminator.  No read goes past it
\* (NoReadPastTerminator), so the value given there is never used.
At(i) == IF i < Len(data) THEN data[i + 1] ELSE NUL

\* skip_spaces with `if` for `while`: one code unit skipped at most.
skip_one_space(p) == IF At(p) # NUL /\ iswspace(At(p)) THEN p + 1 ELSE p

RECURSIVE skip_spaces(_)
skip_spaces(p) == IF At(p) # NUL /\ iswspace(At(p)) THEN skip_spaces(p + 1) ELSE p

RECURSIVE CompareLoop(_, _, _)
CompareLoop(datapos, exppos, expected) ==
  IF At(datapos) # NUL /\ exppos < Len(expected) /\ At(datapos) = expected[exppos + 1]
  THEN CompareLoop(datapos + 1, exppos + 1, expected)
  ELSE <<datapos, exppos>>

\* compare_forward: pos moves only when the whole literal matched.
compare_forward(p, expected) ==
  LET e == CompareLoop(p, 0, expected)
  IN  [match |-> e[2] = Len(expected),
       pos |-> IF e[2] = Len(expected) THEN e[1] ELSE p,
       hi |-> e[1]]

HexDigit(c) ==
  IF iswdigit(c) THEN c - CH_0
  ELSE IF isupper(c) THEN c - CH_UPPER_A + 10
  ELSE c - CH_a + 10

\* The \u loop with the four code units read before any is tested.
HexLoopReadAhead(p, i, code) ==
  LET bad == { j \in i..3 : ~iswxdigit(At(p + j)) }
      first_bad == CHOOSE j \in bad : \A k \in bad : j <= k
  IN  IF bad # {}
      THEN [ok |-> FALSE, msg |-> "Invalid hex code", at |-> p + first_bad, pos |-> p, hi |-> p + 3]
      ELSE [ok |-> TRUE,
            ch |-> ((code * 16 + HexDigit(At(p))) * 16 + HexDigit(At(p + 1))) * 256
                   + HexDigit(At(p + 2)) * 16 + HexDigit(At(p + 3)),
            pos |-> p + 4, hi |-> p + 3]

RECURSIVE HexLoop(_, _, _)
HexLoop(p, i, code) ==
  IF i >= 4 THEN [ok |-> TRUE, ch |-> code, pos |-> p + 4, hi |-> p + 3]
  ELSE IF ~iswxdigit(At(p + i))
       THEN [ok |-> FALSE, msg |-> "Invalid hex code", at |-> p + i, pos |-> p, hi |-> p + i]
       ELSE HexLoop(p, i + 1, code * 16 + HexDigit(At(p + i)))

unescape(p) ==
  LET c == At(p)
      one(ch) == [ok |-> TRUE, ch |-> ch, pos |-> p + 1, hi |-> p]
  IN  CASE c = CH_b -> one(CH_BS)
        [] c = CH_f -> one(CH_FF)
        [] c = CH_n -> one(CH_LF)
        [] c = CH_r -> one(CH_CR)
        [] c = CH_t -> one(CH_TAB)
        [] c \in {CH_QUOTE, CH_BACKSLASH, CH_SLASH} -> one(c)
        [] c = CH_u -> HexLoop(p + 1, 0, 0)
        [] OTHER -> [ok |-> FALSE, msg |-> "Invalid escape character found",
                     at |-> p, pos |-> p, hi |-> p]

(***************************************************************************)
(* Calls, returns and exceptions.                                          *)
(***************************************************************************)
Top == stack[Len(stack)]
Pop == SubSeq(stack, 1, Len(stack) - 1)
SetTop(f) == [stack EXCEPT ![Len(stack)] = f]
Running(fn) == status = "running" /\ stack # <<>> /\ Top.fn = fn

\* mark: pos when the call was made.
ValueFrame(p) == [fn |-> "decode_value", mark |-> p]
StringFrame(m) == [fn |-> "decode_string", pc |-> "entry", mark |-> m, str |-> <<>>, escape |-> FALSE]
IntegerFrame(p) == [fn |-> "decode_integer", mark |-> p, res |-> 0]
NumberFrame(m) ==
  [fn |-> "decode_number", pc |-> "entry", mark |-> m, integer |-> 0, remainder |-> 0,
   remainder_count |-> 0, neg_mantissa |-> FALSE, exponent |-> 0, neg_exponent |-> FALSE,
   oldpos |-> 0]
ArrayFrame(m) == [fn |-> "decode_array", pc |-> "entry", mark |-> m, iter |-> m, list |-> <<>>, last |-> FALSE]
ObjectFrame(m) ==
  [fn |-> "decode_object", pc |-> "entry", mark |-> m, iter |-> m, object |-> <<>>,
   last |-> FALSE, key |-> <<>>]

NoError == [kind |-> "none", msg |-> "", at |-> -1]

\* A block that ends inside the function or in a call: the cursor, the stack.
Goto(p, s, hi) ==
  /\ pos' = p
  /\ stack' = s
  /\ maxread' = Max(maxread, hi)
  /\ UNCHANGED <<ret, status, err, harness>>

\* return v; decode itself returns when the outermost decode_value does.
Return(v, p, hi) ==
  /\ pos' = p
  /\ stack' = Pop
  /\ ret' = v
  /\ status' = IF Len(stack) = 1 THEN "ok" ELSE "running"
  /\ maxread' = Max(maxread, hi)
  /\ UNCHANGED <<err, harness>>

\* raise_error: nothing catches the exception, the whole call stack unwinds.
raise_error(kind, msg, at, p, hi) ==
  /\ pos' = p
  /\ stack' = <<>>
  /\ status' = "error"
  /\ err' = [kind |-> kind, msg |-> msg, at |-> at]
  /\ maxread' = Max(maxread, hi)
  /\ UNCHANGED <<ret, harness>>

(***************************************************************************)
(* decode_value                                                            *)
(***************************************************************************)
Literal(p, expected, v) ==
  LET m == compare_forward(p, expected)
  IN  IF m.match THEN Return(v, m.pos, m.hi)
      ELSE raise_error("InvalidCharacter", "Invalid token found", p, p, m.hi)

DecodeValue ==
  /\ Running("decode_value")
  /\ LET p == skip_spaces(pos)
         c == At(p)
         m == Top.mark
     IN  CASE c = CH_t -> Literal(p, LIT_TRUE, BoolV(TRUE))
           [] c = CH_f -> Literal(p, LIT_FALSE, BoolV(FALSE))
           [] c = CH_n -> Literal(p, LIT_NULL, NullV)
           [] c = CH_QUOTE -> Goto(p, SetTop(StringFrame(m)), p)
           [] c = CH_LBRACE -> Goto(p, SetTop(ObjectFrame(m)), p)
           [] c = CH_LBRACKET -> Goto(p, SetTop(ArrayFrame(m)), p)
           [] OTHER ->
                IF iswdigit(c) \/ c = CH_MINUS
                THEN Goto(p, SetTop(NumberFrame(m)), p)
                ELSE raise_error("InvalidCharacter", "Invalid character found", p, p, p)

(***************************************************************************)
(* decode_string                                                           *)
(***************************************************************************)
DecodeStringEnter ==
  /\ Running("decode_string") /\ Top.pc = "entry"
  /\ Goto(pos + 1, SetTop([Top EXCEPT !.pc = "loop"]), pos)

StringLoopCond == At(pos) # NUL /\ (Top.escape \/ At(pos) # CH_QUOTE)

\* The loop body with the ++pos of the backslash branch left out.
DecodeStringLoopNoAdvance ==
  /\ Running("decode_string") /\ Top.pc = "loop"
  /\ StringLoopCond
  /\ IF Top.escape
     THEN LET u == unescape(pos)
          IN  IF u.ok
              THEN Goto(u.pos, SetTop([Top EXCEPT !.str = Append(@, u.ch), !.escape = FALSE]), u.hi)
              ELSE raise_error("InvalidCharacter", u.msg, u.at, u.pos, u.hi)
     ELSE IF At(pos) = CH_BACKSLASH
          THEN Goto(pos, SetTop([Top EXCEPT !.escape = TRUE]), pos)
          ELSE Goto(pos + 1, SetTop([Top EXCEPT !.str = Append(@, At(pos))]), pos)

DecodeStringLoop ==
  /\ Running("decode_string") /\ Top.pc = "loop"
  /\ StringLoopCond
  /\ IF Top.escape
     THEN LET u == unescape(pos)
          IN  IF u.ok
              THEN Goto(u.pos, SetTop([Top EXCEPT !.str = Append(@, u.ch), !.escape = FALSE]), u.hi)
              ELSE raise_error("InvalidCharacter", u.msg, u.at, u.pos, u.hi)
     ELSE IF At(pos) = CH_BACKSLASH
          THEN Goto(pos + 1, SetTop([Top EXCEPT !.escape = TRUE]), pos)
          ELSE Goto(pos + 1, SetTop([Top EXCEPT !.str = Append(@, At(pos))]), pos)

DecodeStringExit ==
  /\ Running("decode_string") /\ Top.pc = "loop"
  /\ ~StringLoopCond
  /\ IF At(pos) = NUL
     THEN raise_error("UnexpectedEof", "Unexpected end of input", pos, pos, pos)
     ELSE Return(StrV(Top.str), pos + 1, pos)

(***************************************************************************)
(* decode_integer                                                          *)
(***************************************************************************)
\* res is an int; the inputs checked hold far fewer than the ten digits it
\* takes to overflow one.
IntegerLoopCond == At(pos) # NUL /\ iswdigit(At(pos))

DecodeIntegerLoop ==
  /\ Running("decode_integer")
  /\ IntegerLoopCond
  /\ Goto(pos + 1, SetTop([Top EXCEPT !.res = @ * 10 + At(pos) - CH_0]), pos)

DecodeIntegerExit ==
  /\ Running("decode_integer")
  /\ ~IntegerLoopCond
  /\ Return([type |-> "int", i |-> Top.res], pos, pos)

(***************************************************************************)
(* decode_number                                                           *)
(***************************************************************************)
\* Lines 153-179: sign, first digit, integer part.
DecodeNumberEnter ==
  /\ Running("decode_number") /\ Top.pc = "entry"
  /\ LET neg == At(pos) = CH_MINUS
         p == IF neg THEN pos + 1 ELSE pos
         f == [Top EXCEPT !.neg_mantissa = neg]
     IN  IF ~iswdigit(At(p))
         THEN raise_error("InvalidCharacter", "Invalid digit", p, p, p)
         ELSE IF At(p) # CH_0
              THEN Goto(p, Append(SetTop([f EXCEPT !.pc = "integer"]), IntegerFrame(p)), p)
              ELSE Goto(p + 1, SetTop([f EXCEPT !.pc = "fraction"]), p)

\* Lines 174, 181-191: the integer part is back; the fraction.
DecodeNumberFraction ==
  /\ Running("decode_number") /\ Top.pc \in {"integer", "fraction"}
  /\ LET f == IF Top.pc = "integer" THEN [Top EXCEPT !.integer = ret.i] ELSE Top
     IN  IF At(pos) = CH_DOT
         THEN IF ~iswdigit(At(pos + 1))
              THEN raise_error("InvalidCharacter", "Invalid digit", pos + 1, pos + 1, pos + 1)
              ELSE Goto(pos + 1,
                        Append(SetTop([f EXCEPT !.pc = "remainder", !.oldpos = pos + 1]),
                               IntegerFrame(pos + 1)),
                        pos + 1)
         ELSE Goto(pos, SetTop([f EXCEPT !.pc = "exponent"]), pos)

\* Lines 189-190, 193-211: the fraction is back; the exponent.
DecodeNumberExponent ==
  /\ Running("decode_number") /\ Top.pc \in {"remainder", "exponent"}
  /\ LET f == IF Top.pc = "remainder"
              THEN [Top EXCEPT !.remainder = ret.i, !.remainder_count = pos - Top.oldpos]
              ELSE Top
     IN  IF At(pos) = CH_e \/ At(pos) = CH_UPPER_E
         THEN LET signed == At(pos + 1) = CH_PLUS \/ At(pos + 1) = CH_MINUS
                  p == IF signed THEN pos + 2 ELSE pos + 1
                  g == [f EXCEPT !.neg_exponent = (At(pos + 1) = CH_MINUS)]
              IN  IF ~iswdigit(At(p))
                  THEN raise_error("InvalidCharacter", "Invalid digit", p, p, p)
                  ELSE Goto(p, Append(SetTop([g EXCEPT !.pc = "exp_digits"]), IntegerFrame(p)), p)
         ELSE Goto(pos, SetTop([f EXCEPT !.pc = "result"]), pos)

\* Lines 210, 213-231: the exponent is back; the result.
DecodeNumberResult ==
  /\ Running("decode_number") /\ Top.pc \in {"exp_digits", "result"}
  /\ LET f == IF Top.pc = "exp_digits" THEN [Top EXCEPT !.exponent = ret.i] ELSE Top
     IN  IF f.remainder_count = 0 /\ f.exponent = 0
         THEN Return(IntV(IF f.neg_mantissa THEN -f.integer ELSE f.integer), pos, maxread)
         ELSE Return(FloatV(f.neg_mantissa, f.integer, f.remainder, f.remainder_count,
                            IF f.neg_exponent THEN -f.exponent ELSE f.exponent),
                     pos, maxread)

(***************************************************************************)
(* decode_array                                                            *)
(***************************************************************************)
\* Lines 237-244, 265-266.
DecodeArrayEnter ==
  /\ Running("decode_array") /\ Top.pc = "entry"
  /\ LET p == skip_spaces(pos + 1)
     IN  IF At(p) # CH_RBRACKET
         THEN Goto(p, SetTop([Top EXCEPT !.pc = "loop"]), p)
         ELSE Goto(p, SetTop([Top EXCEPT !.pc = "end", !.last = TRUE]), p)

ArrayLoopCond == At(pos) # NUL /\ ~Top.last /\ At(pos) # CH_RBRACKET

\* Lines 246-249: the loop test, the call of decode_value.
DecodeArrayLoop ==
  /\ Running("decode_array") /\ Top.pc = "loop"
  /\ ArrayLoopCond
  /\ LET p == skip_spaces(pos)
     IN  Goto(p, Append(SetTop([Top EXCEPT !.pc = "element", !.iter = pos]), ValueFrame(p)), p)

\* Lines 249-262: the element is back; the separator.
DecodeArrayElement ==
  /\ Running("decode_array") /\ Top.pc = "element"
  /\ LET p == skip_spaces(pos)
         comma == At(p) = CH_COMMA
         q == skip_spaces(IF comma THEN p + 1 ELSE p)
     IN  Goto(q, SetTop([Top EXCEPT !.pc = "loop", !.list = Append(@, ret), !.last = ~comma]), q)

\* Lines 268-271.
DecodeArrayEnd ==
  /\ Running("decode_array")
  /\ Top.pc = "end" \/ (Top.pc = "loop" /\ ~ArrayLoopCond)
  /\ IF ~Top.last \/ At(pos) # CH_RBRACKET
     THEN raise_error("InvalidCharacter", "List ended with an invalid character", pos, pos, pos)
     ELSE Return(ListV(Top.list), pos, pos)

(***************************************************************************)
(* decode_object                                                           *)
(***************************************************************************)
\* Lines 277-284, 317-318.
DecodeObjectEnter ==
  /\ Running("decode_object") /\ Top.pc = "entry"
  /\ LET p == skip_spaces(pos + 1)
     IN  IF At(p) # CH_RBRACE
         THEN Goto(p, SetTop([Top EXCEPT !.pc = "loop"]), p)
         ELSE Goto(p, SetTop([Top EXCEPT !.pc = "end", !.last = TRUE]), p)

ObjectLoopCond == At(pos) # NUL /\ ~Top.last /\ At(pos) # CH_RBRACE

\* Lines 286-291: the loop test, the key.
DecodeObjectKey ==
  /\ Running("decode_object") /\ Top.pc = "loop"
  /\ ObjectLoopCond
  /\ LET p == skip_spaces(pos)
     IN  IF At(p) # CH_QUOTE
         THEN raise_error("InvalidCharacter", "Expected string for key", p, p, p)
         ELSE Goto(p, Append(SetTop([Top EXCEPT !.pc = "key", !.iter = pos]), StringFrame(p)), p)

\* Lines 291-299: the key is back; the colon, the call of decode_value.
DecodeObjectColon ==
  /\ Running("decode_object") /\ Top.pc = "key"
  /\ LET p == skip_spaces(pos)
     IN  IF At(p) # CH_COLON
         THEN raise_error("InvalidCharacter", "Expected ':'", p, p, p)
         ELSE LET q == skip_spaces(p + 1)
              IN  Goto(q, Append(SetTop([Top EXCEPT !.pc = "value", !.key = ret.s]), ValueFrame(q)), q)

\* Lines 299-314: the value is back; the insertion, the separator.
DecodeObjectMember ==
  /\ Running("decode_object") /\ Top.pc = "value"
  /\ LET p == skip_spaces(pos)
         comma == At(p) = CH_COMMA
         q == skip_spaces(IF comma THEN p + 1 ELSE p)
     IN  Goto(q, SetTop([Top EXCEPT !.pc = "loop", !.object = ObjectInsert(@, Top.key, ret),
                                     !.last = ~comma]), q)

\* Lines 320-323.
DecodeObjectEnd ==
  /\ Running("decode_object")
  /\ Top.pc = "end" \/ (Top.pc = "loop" /\ ~ObjectLoopCond)
  /\ IF ~Top.last \/ At(pos) # CH_RBRACE
     THEN raise_error("InvalidCharacter", "Object ended with invalid character", pos, pos, pos)
     ELSE Return(ObjV(Top.object), pos, pos)

(***************************************************************************)
(* The encoder.                                                            *)
(***************************************************************************)
RECURSIVE Concat(_)
Concat(ss) == IF ss = <<>> THEN <<>> ELSE Head(ss) \o Concat(Tail(ss))

RECURSIVE DecDigits(_)
DecDigits(n) == IF n < 10 THEN <<CH_0 + n>> ELSE Append(DecDigits(n \div 10), CH_0 + (n % 10))

\* dest << (int)value
IntText(i) == IF i < 0 THEN <<CH_MINUS>> \o DecDigits(-i) ELSE DecDigits(i)

HexChar(d) == IF d < 10 THEN CH_0 + d ELSE CH_a + (d - 10)

RECURSIVE HexDigits(_)
HexDigits(n) == IF n < 16 THEN <<HexChar(n)>> ELSE Append(HexDigits(n \div 16), HexChar(n % 16))

RECURSIVE PadLeft(_, _, _)
PadLeft(s, width, fill) == IF Len(s) >= width THEN s ELSE PadLeft(<<fill>> \o s, width, fill)

\* (short)(*it & 0xFFFF): the low 16 bits read as a signed 16-bit integer.
ToShort(c) == LET low == c % 65536 IN IF low >= 32768 THEN low - 65536 ELSE low

\* The conversion of the short argument to hex's `unsigned value` (32 bits),
\* kept as its two 16-bit halves: a negative short sign-extends.
ToUnsigned(sh) == IF sh < 0 THEN [high |-> 65535, low |-> sh + 65536] ELSE [high |-> 0, low |-> sh]

\* hex: std::hex, setw(4), setfill('0'); setw is a minimum width.
hex(value) ==
  LET digits == IF value.high = 0 THEN HexDigits(value.low)
                ELSE HexDigits(value.high) \o PadLeft(HexDigits(value.low), 4, CH_0)
  IN  PadLeft(digits, 4, CH_0)

\* The body of escape's loop, for one code unit.
EscapeUnit(c) ==
  CASE c = CH_BACKSLASH -> <<CH_BACKSLASH, CH_BACKSLASH>>
    [] c = CH_QUOTE -> <<CH_BACKSLASH, CH_QUOTE>>
    [] c = CH_SLASH -> <<CH_BACKSLASH, CH_SLASH>>
    [] c = CH_BS -> <<CH_BACKSLASH, CH_b>>
    [] c = CH_FF -> <<CH_BACKSLASH, CH_f>>
    [] c = CH_LF -> <<CH_BACKSLASH, CH_n>>
    [] c = CH_CR -> <<CH_BACKSLASH, CH_r>>
    [] c = CH_TAB -> <<CH_BACKSLASH, CH_t>>
    [] OTHER -> IF ~iswprint(c)
                THEN <<CH_BACKSLASH, CH_u>> \o hex(ToUnsigned(ToShort(c)))
                ELSE <<c>>

escape(s) == Concat([i \in 1..Len(s) |-> EscapeUnit(s[i])])

RECURSIVE LexLess(_, _)
LexLess(a, b) ==
  IF b = <<>> THEN FALSE
  ELSE IF a = <<>> THEN TRUE
  ELSE IF Head(a) # Head(b) THEN Head(a) < Head(b)
  ELSE LexLess(Tail(a), Tail(b))

\* The keys of a Value::Object in the order its iterator visits them.
RECURSIVE KeyOrder(_)
KeyOrder(K) ==
  IF K = {} THEN <<>>
  ELSE LET m == CHOOSE x \in K : \A y \in K \ {x} : LexLess(x, y)
       IN  <<m>> \o KeyOrder(K \ {m})

\* The pieces joined by ", ".
RECURSIVE JoinComma(_)
JoinComma(ss) ==
  IF ss = <<>> THEN <<>>
  ELSE IF Len(ss) = 1 THEN Head(ss)
  ELSE Head(ss) \o <<CH_COMMA, CH_SPACE>> \o JoinComma(Tail(ss))

\* encode(std::wstringstream &, const Value &).  A Float is written by
\* operator<<(double); no Value handed to encode here is a Float.
RECURSIVE encode(_)
encode(v) ==
  CASE v.type = "Null" -> LIT_NULL
    [] v.type = "Boolean" -> IF v.b THEN LIT_TRUE ELSE LIT_FALSE
    [] v.type = "Integer" -> IntText(v.i)
    [] v.type = "String" -> <<CH_QUOTE>> \o escape(v.s) \o <<CH_QUOTE>>
    [] v.type = "List" ->
         <<CH_LBRACKET>> \o JoinComma([i \in 1..Len(v.list) |-> encode(v.list[i])])
                         \o <<CH_RBRACKET>>
    [] v.type = "Object" ->
         LET keys == KeyOrder(DOMAIN v.obj)
         IN  <<CH_LBRACE>>
             \o JoinComma([i \in 1..Len(keys) |->
                            <<CH_QUOTE>> \o keys[i] \o <<CH_QUOTE, CH_COLON>> \o encode(v.obj[keys[i]])])
             \o <<CH_RBRACE>>

(***************************************************************************)
(* The callers' inputs: bounded Value trees and JSON texts.                *)
(***************************************************************************)
MaxNodes == 3      \* nodes of a Value tree
MaxWsNodes == 3    \* nodes of a Value tree whose text gets whitespace inserted
MaxDigits == 2     \* digits of each part of a number literal
MaxBody == 5       \* code units after the opening quote of a string text
MaxStr == 2        \* code units of a String handed to the encoder

KEY_A == <<97>>
KEY_B == <<98>>
KeyLists == {<<KEY_A>>, <<KEY_A, KEY_B>>}
Atoms == {NullV, BoolV(TRUE), IntV(-12), StrV(<<97, 98>>)}

MakeObject(keys, vals) == [k \in {keys[i] : i \in 1..Len(keys)} |->
                             vals[CHOOSE i \in 1..Len(keys) : keys[i] = k]]

\* TreesOf(A, KL, n): the Value trees of exactly n nodes with leaves in A and
\* key lists in KL; ForestsOf(A, KL, n, k): the sequences of k such trees with
\* n nodes in all.
RECURSIVE TreesOf(_, _, _), ForestsOf(_, _, _, _)
ForestsOf(A, KL, n, k) ==
  IF k = 0 THEN (IF n = 0 THEN {<<>>} ELSE {})
  ELSE UNION { { <<t>> \o f : t \in TreesOf(A, KL, m), f \in ForestsOf(A, KL, n - m, k - 1) } :
               m \in 1..(n - k + 1) }
TreesOf(A, KL, n) ==
  IF n = 1 THEN A \cup {ListV(<<>>), ObjV(<<>>)}
  ELSE { ListV(f) : f \in UNION { ForestsOf(A, KL, n - 1, k) : k \in 1..(n - 1) } }
       \cup UNION { { ObjV(MakeObject(ks, f)) : f \in ForestsOf(A, KL, n - 1, Len(ks)) } :
                    ks \in KL }

Trees == UNION { TreesOf(Atoms, KeyLists, n) : n \in 1..MaxNodes }
WsTrees == UNION { TreesOf({IntV(-12)}, {<<KEY_A>>}, n) : n \in 1..MaxWsNodes }

\* The tokens of the JSON text that denotes v (RFC 8259), in order.
RECURSIVE Tokens(_)
RECURSIVE Separated(_)
Separated(tt) ==
  IF tt = <<>> THEN <<>>
  ELSE IF Len(tt) = 1 THEN Head(tt)
  ELSE Head(tt) \o << <<CH_COMMA>> >> \o Separated(Tail(tt))
Tokens(v) ==
  CASE v.type = "Null" -> <<LIT_NULL>>
    [] v.type = "Boolean" -> IF v.b THEN <<LIT_TRUE>> ELSE <<LIT_FALSE>>
    [] v.type = "Integer" -> <<IntText(v.i)>>
    [] v.type = "String" -> << <<CH_QUOTE>> \o v.s \o <<CH_QUOTE>> >>
    [] v.type = "List" ->
         << <<CH_LBRACKET>> >> \o Separated([i \in 1..Len(v.list) |-> Tokens(v.list[i])])
                               \o << <<CH_RBRACKET>> >>
    [] v.type = "Object" ->
         LET keys == KeyOrder(DOMAIN v.obj)
         IN  << <<CH_LBRACE>> >>
             \o Separated([i \in 1..Len(keys) |->
                            << <<CH_QUOTE>> \o keys[i] \o <<CH_QUOTE>>, <<CH_COLON>> >>
                            \o Tokens(v.obj[keys[i]])])
             \o << <<CH_RBRACE>> >>

\* The text of the token sequence tt with the whitespace w put in each gap of
\* G; gap g lies after token g (gap 0 before the first token).  Two tokens that
\* would read as one (a digit after a digit) are kept apart by one space.
Spaced(tt, G, w) ==
  LET Gap(g) ==
        IF g \in G THEN w
        ELSE IF g >= 1 /\ g < Len(tt) /\ iswdigit(tt[g][Len(tt[g])]) /\ iswdigit(tt[g + 1][1])
             THEN <<CH_SPACE>>
             ELSE <<>>
  IN  Concat([i \in 1..(Len(tt) + 1) |-> Gap(i - 1) \o (IF i <= Len(tt) THEN tt[i] ELSE <<>>)])

Text(tt) == Spaced(tt, {}, <<>>)
Render(v) == Text(Tokens(v))

Prefixes(S) == UNION { { SubSeq(s, 1, k) : k \in 0..Len(s) } : s \in S }
SeqsUpTo(S, n) == UNION { [1..k -> S] : k \in 0..n }

Seeds == { <<34, 92, 117, 48, 48, 52, 49, 34>>,          \* "A" as a \u escape
           <<34, 92, 117, 65, 98, 67, 100, 34>>,         \* ꯍ
           <<34, 97, 92, 34, 98, 92, 110, 92, 47, 34>>,  \* "a\"b\n\/"
           <<34, 92, 98, 92, 102, 92, 114, 92, 116, 34>>,\* "\b\f\r\t"
           <<116, 114, 117, 102, 102, 108, 101>>,        \* truffle
           <<91, 116, 114, 117, 101, 44, 102, 97, 108, 115, 101, 44, 110, 117, 108, 108, 93>>,
                                                         \* [true,false,null]
           <<48, 49, 50, 51>>,                           \* 0123
           <<91, 49, 32, 50, 93>>,                       \* [1 2]
           <<45, 49, 50, 46, 53, 101, 45, 51>>,          \* -12.5e-3
           <<49, 69, 43, 48>>,                           \* 1E+0
           <<123, 34, 97, 34, 58, 49, 44, 34, 97, 34, 58, 50, 125>> } \* {"a":1,"a":2}

\* Number literals, by their parts.
Digits == {CH_0, CH_0 + 1}
DigitSeqs == SeqsUpTo(Digits, MaxDigits) \ {<<>>}
IntParts == { <<CH_0>>, <<CH_0 + 1>>, <<CH_0 + 1, CH_0>> }
FracParts == {<<>>} \cup { <<CH_DOT>> \o s : s \in DigitSeqs }
ExpParts == {<<>>} \cup { m \o s : m \in { <<CH_e>>, <<CH_UPPER_E, CH_PLUS>>, <<CH_e, CH_MINUS>> },
                                       s \in DigitSeqs }
Numbers == { [family |-> "number", frac |-> fr, exp |-> ex, text |-> sg \o ip \o fr \o ex] :
             sg \in {<<>>, <<CH_MINUS>>}, ip \in IntParts, fr \in FracParts, ex \in ExpParts }

\* String texts: an opening quote, then any body over these code units.
BodyUnits == {CH_BACKSLASH, CH_u, CH_0 + 1, CH_QUOTE}
Strings == { [family |-> "string", body |-> b, text |-> <<CH_QUOTE>> \o b] :
             b \in SeqsUpTo(BodyUnits, MaxBody) }

\* Strings handed to the encoder, as values and as keys.
CodeUnits == {CH_BS, CH_LF, 31, CH_QUOTE, CH_SLASH, CH_BACKSLASH, CH_a, 127,
              32767, 32768, 55296, 65535}
EncoderStrings == SeqsUpTo(CodeUnits, MaxStr)

\* A comma put before the closing bracket of a container that is not empty.
IsOpen(t) == t \in { <<CH_LBRACKET>>, <<CH_LBRACE>> }
IsClose(t) == t \in { <<CH_RBRACKET>>, <<CH_RBRACE>> }
InsertAt(tt, i, t) == SubSeq(tt, 1, i - 1) \o <<t>> \o SubSeq(tt, i, Len(tt))
Remove(tt, i) == SubSeq(tt, 1, i - 1) \o SubSeq(tt, i + 1, Len(tt))
WS == <<CH_SPACE, CH_LF, CH_TAB>>
TrailingCommas(v) ==
  LET tt == Tokens(v)
      at == { i \in 2..Len(tt) : IsClose(tt[i]) /\ ~IsOpen(tt[i - 1]) }
  IN  UNION { { [family |-> "trailing", v |-> v, at |-> i,
                 text |-> Spaced(InsertAt(tt, i, <<CH_COMMA>>), G, WS)] : G \in {{}, {i}} } :
              i \in at }

\* Token sequences, well formed or with one token missing, and the same with
\* whitespace put in every gap, in every other gap from the first on, or in
\* every other gap from the second on.
WsTokens == UNION { {Tokens(v)} \cup { Remove(Tokens(v), i) : i \in 1..Len(Tokens(v)) } :
                    v \in WsTrees }
WsInputs ==
  UNION { { [family |-> "ws", tokens |-> tt, gaps |-> G, text |-> Text(tt),
             spaced |-> Spaced(tt, G, WS)] :
            G \in { 0..Len(tt), { g \in 0..Len(tt) : g % 2 = 0 }, { g \in 0..Len(tt) : g % 2 = 1 } } } :
          tt \in WsTokens }

TextInputs ==
  { [family |-> "text", text |-> s] : s \in Prefixes(Seeds \cup { Render(v) : v \in WsTrees }) }
RenderInputs == { [family |-> "render", v |-> v, text |-> Render(v)] : v \in Trees }
EncodeInputs ==
  { [family |-> "encode", v |-> v] :
    v \in Trees \cup { StrV(s) : s \in EncoderStrings } \cup { ObjV(s :> NullV) : s \in EncoderStrings } }
TrailingInputs == UNION { TrailingCommas(v) : v \in Trees }

Inputs ==
  TextInputs \cup RenderInputs \cup EncodeInputs \cup TrailingInputs
  \cup Numbers \cup Strings \cup WsInputs

(***************************************************************************)
(* The caller: it may encode a Value, then it calls decode; it may call    *)
(* decode a second time, on the text with whitespace inserted.             *)
(***************************************************************************)
Init ==
  /\ input \in Inputs
  /\ data = <<>>
  /\ call = 0
  /\ first = [status |-> "none"]
  /\ pos = 0
  /\ stack = <<>>
  /\ ret = NullV
  /\ status = "idle"
  /\ err = NoError
  /\ maxread = -1

Finished == status \in {"ok", "error"}

\* JsonHandler::encode(std::wstring &dest, const Value &value)
Encode ==
  /\ status = "idle" /\ call = 0
  /\ input.family = "encode"
  /\ data' = encode(input.v)
  /\ status' = "encoded"
  /\ UNCHANGED <<input, call, first, pos, stack, ret, err, maxread>>

\* JsonHandler::decode(const std::wstring &json)
Decode ==
  /\ \/ call = 0 /\ status = "idle" /\ input.family # "encode"
        /\ data' = input.text /\ first' = first
     \/ call = 0 /\ status = "encoded"
        /\ data' = data /\ first' = first
     \/ call = 1 /\ Finished /\ input.family = "ws"
        /\ data' = input.spaced
        /\ first' = [status |-> status, ret |-> IF status = "ok" THEN ret ELSE NullV,
                     kind |-> err.kind]
  /\ call' = call + 1
  /\ pos' = 0
  /\ stack' = <<ValueFrame(0)>>
  /\ status' = "running"
  /\ err' = NoError
  /\ maxread' = -1
  /\ UNCHANGED <<input, ret>>

Next ==
  \/ Encode
  \/ Decode
  \/ DecodeValue
  \/ DecodeStringEnter
  \/ DecodeStringLoop
  \/ DecodeStringExit
  \/ DecodeIntegerLoop
  \/ DecodeIntegerExit
  \/ DecodeNumberEnter
  \/ DecodeNumberFraction
  \/ DecodeNumberExponent
  \/ DecodeNumberResult
  \/ DecodeArrayEnter
  \/ DecodeArrayLoop
  \/ DecodeArrayElement
  \/ DecodeArrayEnd
  \/ DecodeObjectEnter
  \/ DecodeObjectKey
  \/ DecodeObjectColon
  \/ DecodeObjectMember
  \/ DecodeObjectEnd

Spec == Init /\ [][Next]_vars

\* A call, once made, keeps running: C++ executes the next statement.
LiveInputs ==
  TextInputs \cup RenderInputs \cup Strings \cup { [family |-> "encode", v |-> v] : v \in Trees }
LiveInit == Init /\ input \in LiveInputs
LiveSpec == LiveInit /\ [][Next]_vars /\ WF_vars(Next)

(***************************************************************************)
(* Properties.                                                             *)
(***************************************************************************)
\* C1: the JSON text that denotes a Value tree decodes, without error, to
\* that tree: one List element per comma-separated value, one Object entry
\* per key, also when an element or a member is itself an array or an object.
DecodesDenotedValue ==
  (input.family = "render" /\ Finished) => (status = "ok" /\ ret = input.v)

RECURSIVE UnitsOf(_)
UnitsOf(v) ==
  CASE v.type = "String" -> { v.s[i] : i \in 1..Len(v.s) }
    [] v.type = "List" -> UNION { UnitsOf(v.list[i]) : i \in 1..Len(v.list) }
    [] v.type = "Object" ->
         UNION { { k[i] : i \in 1..Len(k) } \cup UnitsOf(v.obj[k]) : k \in DOMAIN v.obj }
    [] OTHER -> {}
Surrogates == 55296..57343

\* C2: for a Value tree v without surrogate code units in its Strings and
\* keys, decode(encode(v)) succeeds and is equal to v.
RoundTrip ==
  (input.family = "encode" /\ UnitsOf(input.v) \cap Surrogates = {} /\ call = 1 /\ Finished)
    => (status = "ok" /\ ret = input.v)

\* C3: a text with a comma right before the closing bracket of an array or
\* an object fails with InvalidCharacter, whatever value precedes the comma.
TrailingCommaRejected ==
  (input.family = "trailing" /\ Finished) => (status = "error" /\ err.kind = "InvalidCharacter")

\* What a JSON string body runs into first: its closing quote ("closed"), a
\* malformed escape ("invalid") or the end of the text ("eof").  mode is
\* "plain", "escape" or "hex", with k hex digits of the \u escape read so far.
RECURSIVE ScanBody(_, _, _, _)
ScanBody(b, i, mode, k) ==
  IF i > Len(b) THEN "eof"
  ELSE LET c == b[i]
       IN  CASE mode = "plain" ->
                  IF c = CH_QUOTE THEN "closed"
                  ELSE ScanBody(b, i + 1, IF c = CH_BACKSLASH THEN "escape" ELSE "plain", 0)
             [] mode = "escape" ->
                  IF c \in {CH_b, CH_f, CH_n, CH_r, CH_t, CH_QUOTE, CH_BACKSLASH, CH_SLASH}
                  THEN ScanBody(b, i + 1, "plain", 0)
                  ELSE IF c = CH_u THEN ScanBody(b, i + 1, "hex", 0) ELSE "invalid"
             [] mode = "hex" ->
                  IF ~iswxdigit(c) THEN "invalid"
                  ELSE IF k = 3 THEN ScanBody(b, i + 1, "plain", 0)
                       ELSE ScanBody(b, i + 1, "hex", k + 1)

\* C4: a string that reaches the terminator before its closing quote, also
\* right after a backslash or inside a \u escape, fails with UnexpectedEof
\* at the index of the terminator.
UnterminatedStringIsEof ==
  (input.family = "string" /\ ScanBody(input.body, 1, "plain", 0) = "eof" /\ Finished)
    => (status = "error" /\ err.kind = "UnexpectedEof" /\ err.at = Len(data))

\* C5: a number literal yields an Integer exactly when it has neither a
\* fraction nor an exponent, and a Float otherwise.
IntegerIffPlain ==
  (input.family = "number" /\ Finished)
    => /\ status = "ok"
       /\ ret.type = (IF input.frac = <<>> /\ input.exp = <<>> THEN "Integer" ELSE "Float")

ShortEscaped == {CH_BACKSLASH, CH_QUOTE, CH_SLASH, CH_BS, CH_FF, CH_LF, CH_CR, CH_TAB}
FourHex(c) == LET n == c % 65536
              IN  <<HexChar(n \div 4096), HexChar((n \div 256) % 16),
                    HexChar((n \div 16) % 16), HexChar(n % 16)>>

\* C6: a code unit that has no short escape and is not printable is encoded
\* as six code units: \u and the 4 lowercase hex digits of its low 16 bits.
EscapesAsFourHexDigits ==
  (/\ input.family = "encode" /\ status = "encoded"
   /\ input.v.type = "String"
   /\ \A i \in 1..Len(input.v.s) : input.v.s[i] \notin ShortEscaped /\ ~iswprint(input.v.s[i]))
    => data = <<CH_QUOTE>>
              \o Concat([i \in 1..Len(input.v.s) |-> <<CH_BACKSLASH, CH_u>> \o FourHex(input.v.s[i])])
              \o <<CH_QUOTE>>

\* C7: whitespace inserted between the tokens of a text leaves the outcome of
\* decode as it was: the same Value, or a failure of the same kind.
WhitespaceSameOutcome ==
  (input.family = "ws" /\ call = 2 /\ Finished)
    => /\ status = first.status
       /\ status = "ok" => ret = first.ret
       /\ status = "error" => err.kind = first.kind

WhitespaceWitness ==
  /\ input.family = "ws" /\ call = 2 /\ status = "ok"
  /\ Cardinality(input.gaps) > 1
  /\ Len(data) > Len(input.text) + 4
  /\ ret = ListV(<<IntV(-12), IntV(-12)>>)

\* C8: when decode_value returns, pos is the index right after the last code
\* unit of the value decoded, for every production.
CursorAfterValue ==
  (input.family = "render" /\ status = "ok") => pos = Len(data)

\* C9: the cursor stays within 0..n, n the index of the terminator, it never
\* moves back during a call, and no index past n is read.
CursorInBounds ==
  /\ [](0 <= pos /\ pos <= Len(data) /\ maxread <= Len(data))
  /\ [][status = "running" => pos' >= pos]_vars

CursorWitness ==
  /\ status = "error" /\ err.msg = "Invalid hex code"
  /\ err.at = Len(data) /\ maxread = Len(data) /\ pos < Len(data)

\* One step of a call: a loop iteration that completes, and a call that
\* returns, leave pos greater than it was when they began.
Progress ==
  /\ (Running("decode_string") /\ Top.pc = "loop" /\ StringLoopCond /\ status' = "running")
       => pos' > pos
  /\ (Running("decode_integer") /\ IntegerLoopCond) => pos' > pos
  /\ (Running("decode_array") /\ Top.pc = "element") => pos' > Top.iter
  /\ (Running("decode_object") /\ Top.pc = "value") => pos' > Top.iter
  /\ (status = "running" /\ status' # "error" /\ Len(stack') < Len(stack)) => pos' > Top.mark

\* C10: every decode call ends, with a Value or a ParseError, and every loop
\* iteration and every nested call that returns moves pos forward.
Termination ==
  /\ [][Progress]_vars
  /\ (status = "running") ~> Finished

TerminationWitness ==
  /\ status = "ok" /\ input.family = "render"
  /\ ret.type = "Object" /\ Cardinality(DOMAIN ret.obj) = 2
  /\ pos > 12

====
